---- MODULE Spec2Model ----
(***************************************************************************)
(* Model of snmalloc-rs (src/lib.rs): the SnMalloc facade over the         *)
(* snmalloc_sys backend (the ffi sn_rust functions).  The facade normalises *)
(* zero-size requests and null pointers and delegates everything else.     *)
(* The backend is external to the crate; it is modelled as a set of live   *)
(* blocks whose allocation results are chosen nondeterministically.        *)
(***************************************************************************)
EXTENDS Integers, Sequences, FiniteSets

(* ---------------------------- bounds ---------------------------------- *)
NumThreads == 2          \* threads sharing the one facade
NumAddrs == 2            \* addresses the backend heap can hand out
IsizeMax == 63           \* isize::MAX of the modelled (narrow) machine word

(* --------------------------- constants -------------------------------- *)
Null == 0                \* ptr::null_mut()

Threads == 1..NumThreads
Aligns == {1, 32}
Sizes == {0, 8, IsizeMax}

\* Addresses the linker may give the static ZST_SENTINEL: #[repr(align(16))]
\* guarantees a non-null multiple of 16 and nothing more.
SentinelAddrs == {16, 32}

\* Addresses of the backend heap (disjoint from static storage).
HeapAddrs == {64 + 16 * i : i \in 0..(NumAddrs - 1)}

\* Answers the backend may give to a usable-size query on a pointer it does
\* not own.
UnknownUsable == {0, 16}

VARIABLES sentinel, live, held, last
vars == <<sentinel, live, held, last>>

(* ------------------------- core::alloc::Layout ------------------------ *)
\* Layout::from_size_align(size, align).is_ok() for a power-of-two align:
\* size rounded up to align must not exceed isize::MAX.
ValidLayout(size, align) == size <= IsizeMax - (align - 1)

Layout(size, align) == [size |-> size, align |-> align]

\* Layout::from_size_align(size, align).ok() : Option<Layout> as a set
from_size_align(size, align) ==
    IF ValidLayout(size, align) THEN {Layout(size, align)} ELSE {}

Layouts == {Layout(s, a) : s \in Sizes, a \in Aligns} \cap
           {l \in [size : Sizes, align : Aligns] : ValidLayout(l.size, l.align)}

(* ----------------------- Option / NonNull ----------------------------- *)
\* Option<T> is the empty set (None) or a singleton (Some(x)).
None == {}
Some(x) == {x}

\* NonNull::new(p)
NonNull_new(p) == IF p = Null THEN None ELSE Some(p)

\* opt.map_or(ptr::null_mut(), |p| p.as_ptr())
map_or_null(opt) == IF opt = None THEN Null ELSE CHOOSE p \in opt : TRUE

(* ----------------------------- backend -------------------------------- *)
Blk(addr, align, size) == [addr |-> addr, align |-> align, size |-> size]

AddrsOf(lv) == {b.addr : b \in lv}

BlockAt(lv, p) == CHOOSE b \in lv : b.addr = p

\* One backend call as the facade issued it, with the backend's answer.
Call(fn, ptr, align, size, new_size, res) ==
    [fn |-> fn, ptr |-> ptr, align |-> align, size |-> size,
     new_size |-> new_size, res |-> res]

\* What the backend may answer to allocate(align, size): null (exhaustion)
\* or a free address that is a multiple of align.
AllocResults(lv, align) ==
    {Null} \cup {a \in HeapAddrs : a \notin AddrsOf(lv) /\ a % align = 0}

\* What the backend may answer to reallocate(ptr, align, old, new): null,
\* the old address (resized in place) or a free aligned address (moved).
ReallocResults(lv, ptr, align) ==
    AllocResults(lv, align) \cup
    {a \in {ptr} : a \in AddrsOf(lv) /\ a % align = 0}

\* What the backend may answer to usable_size(ptr): at least the requested
\* size of a live block (rounded up to a size class of 16 or not).
UsableResults(lv, ptr) ==
    IF ptr \in AddrsOf(lv)
    THEN LET s == BlockAt(lv, ptr).size
         IN  {s, ((s + 15) \div 16) * 16}
    ELSE UnknownUsable

sn_rust_alloc(lv, align, size, r) ==
    [res |-> r,
     live |-> IF r = Null THEN lv ELSE lv \cup {Blk(r, align, size)}]

sn_rust_alloc_zeroed(lv, align, size, r) ==
    [res |-> r,
     live |-> IF r = Null THEN lv ELSE lv \cup {Blk(r, align, size)}]

sn_rust_dealloc(lv, ptr, align, size) ==
    [live |-> {b \in lv : b.addr # ptr}]

sn_rust_realloc(lv, ptr, align, old_size, new_size, r) ==
    [res |-> r,
     live |-> IF r = Null
              THEN lv
              ELSE {b \in lv : b.addr # ptr} \cup {Blk(r, align, new_size)}]

sn_rust_usable_size(lv, ptr, u) == [res |-> u, live |-> lv]

(* ------------------------------ facade -------------------------------- *)
\* Result of a facade function: the returned Option, the backend state
\* afterwards and the backend calls it made.
Out(ret, lv, calls) == [ret |-> ret, live |-> lv, calls |-> calls]

\* SnMalloc::handle_zst: the address of the static ZST_SENTINEL
handle_zst == sentinel

safe_alloc(lv, layout, r) ==
    IF layout.size = 0
    THEN Out(Some(handle_zst), lv, <<>>)
    ELSE LET b == sn_rust_alloc(lv, layout.align, layout.size, r)
         IN  Out(NonNull_new(b.res), b.live,
                 <<Call("alloc", Null, layout.align, layout.size, 0, b.res)>>)

\* Variant: no zero-size arm, every request goes to the backend.
safe_alloc_zeroed_nozst(lv, layout, r) ==
    LET b == sn_rust_alloc_zeroed(lv, layout.align, layout.size, r)
    IN  Out(NonNull_new(b.res), b.live,
            <<Call("alloc_zeroed", Null, layout.align, layout.size, 0,
                   b.res)>>)

safe_alloc_zeroed(lv, layout, r) ==
    IF layout.size = 0
    THEN Out(Some(handle_zst), lv, <<>>)
    ELSE LET b == sn_rust_alloc_zeroed(lv, layout.align, layout.size, r)
         IN  Out(NonNull_new(b.res), b.live,
                 <<Call("alloc_zeroed", Null, layout.align, layout.size, 0,
                        b.res)>>)

\* Variant: only the null check, a zero-size layout is not filtered.
safe_dealloc_nosize(lv, ptr, layout) ==
    IF ptr # Null
    THEN LET b == sn_rust_dealloc(lv, ptr, layout.align, layout.size)
         IN  Out(None, b.live,
                 <<Call("dealloc", ptr, layout.align, layout.size, 0, Null)>>)
    ELSE Out(None, lv, <<>>)

\* Variant: size and alignment passed to the backend in the wrong order.
safe_dealloc_swapped(lv, ptr, layout) ==
    IF ptr # Null /\ layout.size > 0
    THEN LET b == sn_rust_dealloc(lv, ptr, layout.size, layout.align)
         IN  Out(None, b.live,
                 <<Call("dealloc", ptr, layout.size, layout.align, 0, Null)>>)
    ELSE Out(None, lv, <<>>)

safe_dealloc(lv, ptr, layout) ==
    IF ptr # Null /\ layout.size > 0
    THEN LET b == sn_rust_dealloc(lv, ptr, layout.align, layout.size)
         IN  Out(None, b.live,
                 <<Call("dealloc", ptr, layout.align, layout.size, 0, Null)>>)
    ELSE Out(None, lv, <<>>)

\* The ordinary-resize arm of safe_realloc.
realloc_arm(lv, ptr, layout, new_size, r) ==
    LET b == sn_rust_realloc(lv, ptr, layout.align, layout.size, new_size, r)
    IN  Out(NonNull_new(b.res), b.live,
            <<Call("realloc", ptr, layout.align, layout.size, new_size,
                   b.res)>>)

\* The grow-from-zero arm of safe_realloc.
grow_arm(lv, layout, new_size, r) ==
    LET l == from_size_align(new_size, layout.align)
    IN  IF l = None
        THEN Out(None, lv, <<>>)
        ELSE safe_alloc(lv, CHOOSE x \in l : TRUE, r)

\* The shrink-to-zero arm of safe_realloc.
shrink_arm(lv, ptr, layout) ==
    LET d == safe_dealloc(lv, ptr, layout)
    IN  Out(None, d.live, d.calls)

\* Variant: no shrink-to-zero arm, new_size 0 goes to the backend's resize.
safe_realloc_noshrink(lv, ptr, layout, new_size, r) ==
    IF layout.size = 0 /\ new_size = 0
    THEN Out(Some(handle_zst), lv, <<>>)
    ELSE IF layout.size = 0
    THEN grow_arm(lv, layout, new_size, r)
    ELSE realloc_arm(lv, ptr, layout, new_size, r)

\* Variant: the grow-from-zero arm builds the layout without validating it.
safe_realloc_unchecked(lv, ptr, layout, new_size, r) ==
    IF layout.size = 0 /\ new_size = 0
    THEN Out(Some(handle_zst), lv, <<>>)
    ELSE IF layout.size = 0
    THEN safe_alloc(lv, Layout(new_size, layout.align), r)
    ELSE IF new_size = 0
    THEN shrink_arm(lv, ptr, layout)
    ELSE realloc_arm(lv, ptr, layout, new_size, r)

\* Variant: a failed ordinary resize frees the old block.
safe_realloc_freeonfail(lv, ptr, layout, new_size, r) ==
    IF layout.size = 0 /\ new_size = 0
    THEN Out(Some(handle_zst), lv, <<>>)
    ELSE IF layout.size = 0
    THEN grow_arm(lv, layout, new_size, r)
    ELSE IF new_size = 0
    THEN shrink_arm(lv, ptr, layout)
    ELSE LET a == realloc_arm(lv, ptr, layout, new_size, r)
         IN  IF a.ret = None
             THEN LET d == safe_dealloc(a.live, ptr, layout)
                  IN  Out(None, d.live, a.calls \o d.calls)
             ELSE a

\* Variant: an ordinary resize hands the caller back the old address.
safe_realloc_returnold(lv, ptr, layout, new_size, r) ==
    IF layout.size = 0 /\ new_size = 0
    THEN Out(Some(handle_zst), lv, <<>>)
    ELSE IF layout.size = 0
    THEN grow_arm(lv, layout, new_size, r)
    ELSE IF new_size = 0
    THEN shrink_arm(lv, ptr, layout)
    ELSE LET a == realloc_arm(lv, ptr, layout, new_size, r)
         IN  Out(IF a.ret = None THEN None ELSE Some(ptr), a.live, a.calls)

\* Variant: shrinking to zero reports "no memory" without freeing the block.
safe_realloc_leak(lv, ptr, layout, new_size, r) ==
    IF layout.size = 0 /\ new_size = 0
    THEN Out(Some(handle_zst), lv, <<>>)
    ELSE IF layout.size = 0
    THEN grow_arm(lv, layout, new_size, r)
    ELSE IF new_size = 0
    THEN Out(None, lv, <<>>)
    ELSE realloc_arm(lv, ptr, layout, new_size, r)

safe_realloc(lv, ptr, layout, new_size, r) ==
    IF layout.size = 0 /\ new_size = 0
    THEN Out(Some(handle_zst), lv, <<>>)
    ELSE IF layout.size = 0
    THEN grow_arm(lv, layout, new_size, r)
    ELSE IF new_size = 0
    THEN shrink_arm(lv, ptr, layout)
    ELSE realloc_arm(lv, ptr, layout, new_size, r)

\* Variant: no null check, every pointer is queried at the backend.
usable_size_nonull(lv, ptr, u) ==
    LET b == sn_rust_usable_size(lv, ptr, u)
    IN  Out(Some(b.res), b.live,
            <<Call("usable_size", ptr, 0, 0, 0, b.res)>>)

\* usable_size returns Option<usize>
usable_size(lv, ptr, u) ==
    IF ptr = Null
    THEN Out(None, lv, <<>>)
    ELSE LET b == sn_rust_usable_size(lv, ptr, u)
         IN  Out(Some(b.res), b.live,
                 <<Call("usable_size", ptr, 0, 0, 0, b.res)>>)

\* impl GlobalAlloc for SnMalloc: the raw pointer handed to the caller
alloc(lv, layout, r) ==
    LET o == safe_alloc(lv, layout, r)
    IN  [out |-> o, raw |-> map_or_null(o.ret)]

alloc_zeroed(lv, layout, r) ==
    LET o == safe_alloc_zeroed(lv, layout, r)
    IN  [out |-> o, raw |-> map_or_null(o.ret)]

dealloc(lv, ptr, layout) ==
    LET o == safe_dealloc(lv, ptr, layout)
    IN  [out |-> o, raw |-> Null]

realloc(lv, ptr, layout, new_size, r) ==
    LET o == safe_realloc(lv, ptr, layout, new_size, r)
    IN  [out |-> o, raw |-> map_or_null(o.ret)]

(* ------------------------------ callers ------------------------------- *)
\* held[t]: the backend blocks thread t owns, each with the layout it was
\* obtained with.
\* last: the most recent facade call: its arguments, the backend state it
\* started from, what it returned and the backend calls it made.
Record(op, ptr, layout, new_size, g) ==
    [op |-> op, ptr |-> ptr, layout |-> layout, new_size |-> new_size,
     before |-> live, ret |-> g.out.ret, raw |-> g.raw,
     calls |-> g.out.calls]

Init ==
    /\ sentinel \in SentinelAddrs
    /\ live = {}
    /\ held = [t \in Threads |-> {}]
    /\ last = [op |-> "init", ptr |-> Null, layout |-> Layout(0, 1),
               new_size |-> 0, before |-> {}, ret |-> None, raw |-> Null,
               calls |-> <<>>]

\* The handle a caller keeps for an address obtained with a layout.
Handle(raw, layout) == Blk(raw, layout.align, layout.size)

\* GlobalAlloc::alloc called by thread t
Alloc(t, layout) ==
    \E r \in (IF layout.size = 0 THEN {Null}
              ELSE AllocResults(live, layout.align)) :
        LET g == alloc(live, layout, r)
        IN  /\ live' = g.out.live
            /\ held' = IF g.raw = Null \/ layout.size = 0 THEN held
                       ELSE [held EXCEPT ![t] = @ \cup {Handle(g.raw, layout)}]
            /\ last' = Record("alloc", Null, layout, 0, g)
            /\ UNCHANGED sentinel

\* GlobalAlloc::alloc_zeroed called by thread t
AllocZeroed(t, layout) ==
    \E r \in (IF layout.size = 0 THEN {Null}
              ELSE AllocResults(live, layout.align)) :
        LET g == alloc_zeroed(live, layout, r)
        IN  /\ live' = g.out.live
            /\ held' = IF g.raw = Null \/ layout.size = 0 THEN held
                       ELSE [held EXCEPT ![t] = @ \cup {Handle(g.raw, layout)}]
            /\ last' = Record("alloc_zeroed", Null, layout, 0, g)
            /\ UNCHANGED sentinel

\* The handles thread t may present: the blocks it holds and the Sentinel
\* with any zero-size layout (obtaining the Sentinel changes no state, so a
\* thread can always have obtained it).
Handles(t) == held[t] \cup {Blk(sentinel, a, 0) : a \in Aligns}

\* GlobalAlloc::dealloc called by thread t on a handle it holds, with that
\* handle's layout, or on a null pointer
Dealloc(t, ptr, layout) ==
    /\ \/ Handle(ptr, layout) \in Handles(t)
       \/ ptr = Null
    /\ LET g == dealloc(live, ptr, layout)
       IN  /\ live' = g.out.live
           /\ held' = [held EXCEPT ![t] = @ \ {Handle(ptr, layout)}]
           /\ last' = Record("dealloc", ptr, layout, 0, g)
           /\ UNCHANGED sentinel

\* GlobalAlloc::realloc called by thread t on a handle b it holds.  For an
\* ordinary resize the caller must pass a new_size that is valid for the
\* alignment (the trait's precondition).
Realloc(t, b, new_size) ==
    /\ b \in Handles(t)
    /\ (b.size > 0 /\ new_size > 0) => ValidLayout(new_size, b.align)
    /\ \E r \in (IF b.size > 0 /\ new_size > 0
                 THEN ReallocResults(live, b.addr, b.align)
                 ELSE IF b.size = 0 /\ new_size > 0
                         /\ ValidLayout(new_size, b.align)
                 THEN AllocResults(live, b.align)
                 ELSE {Null}) :
        LET layout == Layout(b.size, b.align)
            g == realloc(live, b.addr, layout, new_size, r)
        IN  /\ live' = g.out.live
            /\ held' =
                 IF g.raw # Null /\ new_size > 0
                 THEN [held EXCEPT ![t] =
                          (@ \ {b}) \cup {Blk(g.raw, b.align, new_size)}]
                 ELSE IF b.size > 0 /\ new_size = 0
                 THEN [held EXCEPT ![t] = @ \ {b}]
                 ELSE held
            /\ last' = Record("realloc", b.addr, layout, new_size, g)
            /\ UNCHANGED sentinel

\* SnMalloc::usable_size called by thread t on null or on a handle it holds
UsableSize(t, ptr) ==
    /\ ptr \in {Null} \cup {b.addr : b \in Handles(t)}
    /\ \E u \in (IF ptr = Null THEN {0} ELSE UsableResults(live, ptr)) :
        LET o == usable_size(live, ptr, u)
        IN  /\ live' = o.live
            /\ last' = Record("usable_size", ptr, Layout(0, 1), 0,
                              [out |-> o, raw |-> Null])
            /\ UNCHANGED <<sentinel, held>>

Ptrs == {Null} \cup SentinelAddrs \cup HeapAddrs

Next ==
    \/ \E t \in Threads, l \in Layouts : Alloc(t, l)
    \/ \E t \in Threads, l \in Layouts : AllocZeroed(t, l)
    \/ \E t \in Threads, p \in Ptrs, l \in Layouts : Dealloc(t, p, l)
    \/ \E t \in Threads : \E b \in Handles(t), n \in Sizes : Realloc(t, b, n)
    \/ \E t \in Threads, p \in Ptrs : UsableSize(t, p)

Spec == Init /\ [][Next]_vars

TypeOK ==
    /\ sentinel \in SentinelAddrs
    /\ held \in [Threads -> SUBSET [addr : Ptrs, align : Aligns, size : Sizes]]

(* ------------------------------ claims -------------------------------- *)
\* The last call was a request every size of which is zero.
ZeroSizeRequest ==
    \/ last.op \in {"alloc", "alloc_zeroed"} /\ last.layout.size = 0
    \/ last.op = "realloc" /\ last.layout.size = 0 /\ last.new_size = 0

BackendCalls == {last.calls[i] : i \in DOMAIN last.calls}

\* C1: every zero-size request (alloc, alloc_zeroed, realloc from size 0 to
\* size 0) returns the address of the one Sentinel and makes no backend call,
\* leaving the backend state as it was.
C1_ZeroSizeReturnsSentinel ==
    ZeroSizeRequest =>
        /\ last.ret = Some(sentinel)
        /\ last.raw = sentinel
        /\ last.calls = <<>>
        /\ live = last.before

C1_Witness ==
    /\ last.op = "alloc_zeroed"
    /\ last.layout.size = 0
    /\ last.ret = Some(sentinel)
    /\ live # {}

\* C2: when callers hand each address back with the size it was obtained
\* with, no backend deallocate or reallocate call carries the Sentinel.
C2_SentinelNeverReachesBackend ==
    \A c \in BackendCalls :
        c.fn \in {"dealloc", "realloc"} => c.ptr # sentinel

C2_Witness ==
    /\ last.op = "dealloc"
    /\ last.ptr = sentinel
    /\ last.layout.size = 0
    /\ last.calls = <<>>

\* C3: the address returned by alloc / alloc_zeroed for a zero-size layout is
\* non-null and a multiple of the layout's alignment.
C3_ZeroSizeAligned ==
    (last.op \in {"alloc", "alloc_zeroed"} /\ last.layout.size = 0) =>
        /\ last.raw # Null
        /\ last.raw % last.layout.align = 0

\* C4: dealloc makes no backend call and changes nothing when the pointer is
\* null or the layout's size is 0; otherwise it makes exactly one backend
\* deallocate call with (ptr, align, size), which removes that block from the
\* live set and leaves every other live block as it was.
C4_DeallocFrame ==
    last.op = "dealloc" =>
        IF last.ptr = Null \/ last.layout.size = 0
        THEN /\ last.calls = <<>>
             /\ live = last.before
        ELSE /\ last.calls = <<Call("dealloc", last.ptr, last.layout.align,
                                    last.layout.size, 0, Null)>>
             /\ Handle(last.ptr, last.layout) \in last.before
             /\ live = last.before \ {Handle(last.ptr, last.layout)}
             /\ last.ptr \notin AddrsOf(live)

C4_Witness ==
    /\ last.op = "dealloc"
    /\ last.ptr \in HeapAddrs
    /\ last.layout.size > 0
    /\ Cardinality(last.before) = 2
    /\ Cardinality(live) = 1

\* C5: realloc of a live block (size > 0) to new_size 0 passes the block to
\* backend deallocate exactly once with the old layout, never calls backend
\* reallocate, returns an absent result (null), and the address is no longer
\* live afterwards.
C5_ShrinkToZero ==
    (last.op = "realloc" /\ last.layout.size > 0 /\ last.new_size = 0) =>
        /\ last.calls = <<Call("dealloc", last.ptr, last.layout.align,
                               last.layout.size, 0, Null)>>
        /\ last.ret = None
        /\ last.raw = Null
        /\ last.ptr \in AddrsOf(last.before)
        /\ last.ptr \notin AddrsOf(live)

C5_Witness ==
    /\ last.op = "realloc"
    /\ last.layout.size > 0
    /\ last.new_size = 0
    /\ last.ptr \in HeapAddrs
    /\ last.raw = Null

\* C6: realloc from an old layout of size 0 to new_size > 0 does what
\* safe_alloc of (new_size, old alignment) does from the same backend state:
\* one backend allocate(align, new_size) call, the same result and the same
\* backend state, the old pointer never reaching the backend; when
\* (new_size, align) is no valid layout it returns an absent result and makes
\* no backend call.
C6_GrowFromZero ==
    (last.op = "realloc" /\ last.layout.size = 0 /\ last.new_size > 0) =>
        IF ValidLayout(last.new_size, last.layout.align)
        THEN \E r \in AllocResults(last.before, last.layout.align) :
                LET a == safe_alloc(last.before,
                                    Layout(last.new_size, last.layout.align), r)
                IN  /\ last.ret = a.ret
                    /\ live = a.live
                    /\ last.calls = a.calls
                    /\ last.calls = <<Call("alloc", Null, last.layout.align,
                                           last.new_size, 0, r)>>
        ELSE /\ last.ret = None
             /\ last.calls = <<>>
             /\ live = last.before

C6_Witness ==
    /\ last.op = "realloc"
    /\ last.layout.size = 0
    /\ last.new_size > 0
    /\ last.ptr = sentinel
    /\ last.raw \in HeapAddrs
    /\ last.raw \in AddrsOf(live)

\* C7: a backend allocate, allocate_zeroed or reallocate call is the only
\* backend call of its facade call; when it answers null the facade returns
\* an absent result (null) and the live set is unchanged (the old block of a
\* failed resize is still live); when it answers an address the facade
\* returns that address.
C7_Exhaustion ==
    \A c \in BackendCalls :
        c.fn \in {"alloc", "alloc_zeroed", "realloc"} =>
            /\ Len(last.calls) = 1
            /\ c.res = Null =>
                  /\ last.ret = None
                  /\ last.raw = Null
                  /\ live = last.before
            /\ c.res # Null =>
                  /\ last.ret = Some(c.res)
                  /\ last.raw = c.res

C7_Witness ==
    /\ last.op = "realloc"
    /\ last.layout.size > 0
    /\ last.new_size > 0
    /\ last.calls # <<>>
    /\ last.ret = None
    /\ last.ptr \in AddrsOf(live)

\* C8: under every interleaving of the threads' calls no backend address is
\* held by two threads, and every block a thread holds is still live with the
\* layout it was obtained with (no other thread's call freed or moved it).
C8_ThreadsDisjoint ==
    /\ \A t1 \in Threads, t2 \in Threads :
          t1 # t2 => AddrsOf(held[t1]) \cap AddrsOf(held[t2]) = {}
    /\ \A t \in Threads : held[t] \subseteq live

C8_Witness ==
    /\ \E t1 \in Threads, t2 \in Threads :
          t1 # t2 /\ held[t1] # {} /\ held[t2] # {}
    /\ last.op = "realloc"
    /\ last.calls # <<>>
    /\ last.ret # None

\* C9: usable_size returns an absent result exactly when the pointer is null;
\* for a non-null pointer it makes one backend usable-size query on that
\* pointer and returns its answer, changing no allocation state; for a live
\* block the answer is at least the size the block was requested with.
C9_UsableSize ==
    last.op = "usable_size" =>
        /\ (last.ret = None) <=> (last.ptr = Null)
        /\ last.ptr = Null => last.calls = <<>>
        /\ last.ptr # Null =>
              /\ Len(last.calls) = 1
              /\ last.calls[1].fn = "usable_size"
              /\ last.calls[1].ptr = last.ptr
              /\ last.ret = Some(last.calls[1].res)
        /\ live = last.before
        /\ last.ptr \in AddrsOf(live) =>
              \A u \in last.ret : u >= BlockAt(live, last.ptr).size

C9_Witness ==
    /\ last.op = "usable_size"
    /\ last.ptr \in AddrsOf(live)
    /\ last.ret # None
    /\ last.ret # Some(BlockAt(live, last.ptr).size)

\* C10: every address passed to backend deallocate or reallocate is live at
\* that moment (no double free), the blocks the callers hold are exactly the
\* backend's live blocks (the Sentinel is neither), and when the callers hold
\* nothing the backend has no live block (no leak).
C10_Lifecycle ==
    /\ \A c \in BackendCalls :
          c.fn \in {"dealloc", "realloc"} => c.ptr \in AddrsOf(last.before)
    /\ UNION {held[t] : t \in Threads} = live
    /\ sentinel \notin AddrsOf(live)
    /\ (\A t \in Threads : held[t] = {}) => live = {}

C10_Witness ==
    /\ last.op = "dealloc"
    /\ last.calls # <<>>
    /\ last.before # {}
    /\ live = {}
    /\ \A t \in Threads : held[t] = {}

====
